---- MODULE Spec2Model ----
(***************************************************************************)
(* Model of lead_generator.py: the LeadGenerator pipeline (research_leads, *)
(* analyze_and_score_leads, prepare_spreadsheet, generate_outreach_email)  *)
(* and the Streamlit script create_streamlit_app that drives it through    *)
(* st.session_state.                                                       *)
(*                                                                         *)
(* A completion text is a sequence of tokens.  Python/JSON values are      *)
(* tagged records, so that values of different Python types can be         *)
(* compared.  Scores are kept in tenths (4.2 is 42).                       *)
(***************************************************************************)
EXTENDS Integers, Sequences, FiniteSets, TLC

VARIABLES
    pc,                  \* position of the session's script run
    action,              \* the user action that started the current run
    clicked,             \* index of the email button that returned True
    leads,               \* LeadGenerator.leads of the run's generator
    qualified_leads,     \* LeadGenerator.qualified_leads
    ss_leads,            \* st.session_state.leads
    ss_qualified_leads,  \* st.session_state.qualified_leads
    ss_download_link,    \* st.session_state.download_link
    ss_selected_lead,    \* st.session_state.selected_lead
    ss_email_template,   \* st.session_state.email_template
    errors,              \* stages that called st.error in the current run
    propagated,          \* the stage whose exception escaped, or "none"
    trace,               \* the stages the current run has executed, in order
    assigned,            \* session_state keys assigned during the current run
    spreadsheet,         \* rows of the file the current run wrote, or None
    view,                \* what the current run has put on screen
    completion           \* the inference outcome under test (SpecExtract)

vars == <<pc, action, clicked, leads, qualified_leads, ss_leads,
          ss_qualified_leads, ss_download_link, ss_selected_lead,
          ss_email_template, errors, propagated, trace, assigned,
          spreadsheet, view, completion>>

(***************************************************************************)
(* Bounds                                                                  *)
(***************************************************************************)
\* longest completion text enumerated exhaustively
MaxLen == 4
\* most records in a completion of the pipeline
MaxLeads == 2

(***************************************************************************)
(* Python values                                                           *)
(***************************************************************************)
None == [type |-> "null"]
Num(n) == [type |-> "number", val |-> n]
Str(s) == [type |-> "string", val |-> s]
Arr(items) == [type |-> "array", items |-> items]
Obj(fields) == [type |-> "object", fields |-> fields]

IsArr(v) == v.type = "array"
IsObj(v) == v.type = "object"

\* Python truth value, as `if st.session_state.qualified_leads:` takes it
Truthy(v) ==
    CASE v.type = "null" -> FALSE
      [] v.type = "number" -> v.val # 0
      [] v.type = "string" -> v.val # ""
      [] v.type = "array" -> v.items # <<>>
      [] v.type = "object" -> DOMAIN v.fields # {}
      [] OTHER -> TRUE

\* d[k] = x on a dict
DictSet(fields, k, x) ==
    [f \in DOMAIN fields \cup {k} |-> IF f = k THEN x ELSE fields[f]]

(***************************************************************************)
(* The records a completion can hold                                       *)
(***************************************************************************)
ResearchFields == {"business_name", "address", "phone", "website", "email",
                   "description", "estimated_size", "year_established"}

FullRecord(name) ==
    [business_name |-> name, address |-> "addr", phone |-> "tel",
     website |-> "web", email |-> "mail", description |-> "desc",
     estimated_size |-> "medium", year_established |-> "2010"]

Scored(fields, score, class) ==
    DictSet(DictSet(fields, "score", score), "classification", class)

\* the object literal each object token stands for
ObjectOf(tok) ==
    CASE tok = "{A}" -> FullRecord("A")
      [] tok = "{B}" -> [business_name |-> "B", phone |-> "tel"]
      [] tok = "{A3}" -> Scored(FullRecord("A"), 30, "Medium Value")
      [] tok = "{B3}" -> Scored(FullRecord("B"), 30, "Medium Value")
      [] tok = "{C5}" -> Scored(FullRecord("C"), 50, "High Value")

ObjectTokens == {"{A}", "{B}", "{A3}", "{B3}", "{C5}"}
Whitespace == {"nl"}

(***************************************************************************)
(* json.loads on a token text                                              *)
(***************************************************************************)
ParseFail == [ok |-> FALSE, val |-> None, rest |-> <<>>]
ParseOk(v, rest) == [ok |-> TRUE, val |-> v, rest |-> rest]

RECURSIVE SkipWs(_)
SkipWs(s) ==
    IF s # <<>> /\ Head(s) \in Whitespace THEN SkipWs(Tail(s)) ELSE s

RECURSIVE ParseValue(_)
RECURSIVE ParseItems(_, _)
ParseValue(s) ==
    LET t == SkipWs(s) IN
    IF t = <<>> THEN ParseFail
    ELSE IF Head(t) = "7" THEN ParseOk(Num(7), Tail(t))
    ELSE IF Head(t) \in ObjectTokens THEN ParseOk(Obj(ObjectOf(Head(t))), Tail(t))
    ELSE IF Head(t) = "["
         THEN LET u == SkipWs(Tail(t)) IN
              IF u # <<>> /\ Head(u) = "]"
              THEN ParseOk(Arr(<<>>), Tail(u))
              ELSE ParseItems(u, <<>>)
    ELSE ParseFail

ParseItems(s, acc) ==
    LET r == ParseValue(s) IN
    IF ~r.ok THEN ParseFail
    ELSE LET u == SkipWs(r.rest) IN
         IF u = <<>> THEN ParseFail
         ELSE IF Head(u) = "," THEN ParseItems(Tail(u), Append(acc, r.val))
         ELSE IF Head(u) = "]" THEN ParseOk(Arr(Append(acc, r.val)), Tail(u))
         ELSE ParseFail

\* json.loads(content): one value, nothing but whitespace after it
JsonLoads(s) ==
    LET r == ParseValue(s) IN
    IF r.ok /\ SkipWs(r.rest) = <<>> THEN ParseOk(r.val, <<>>) ELSE ParseFail

(***************************************************************************)
(* re.search(r'\[.*\]', content, re.DOTALL)                                *)
(***************************************************************************)
Positions(s, tok) == {i \in 1..Len(s) : s[i] = tok}
Min(S) == CHOOSE x \in S : \A y \in S : x <= y
Max(S) == CHOOSE x \in S : \A y \in S : x >= y

NoMatch == [found |-> FALSE, from |-> 0, to |-> 0]

\* a non-greedy pattern: the match ends at the first "]" after the first "["
ReSearchLazy(s) ==
    LET opens == Positions(s, "[") IN
    IF opens = {} THEN NoMatch
    ELSE LET closes == {j \in Positions(s, "]") : j > Min(opens)} IN
         IF closes = {} THEN NoMatch
         ELSE [found |-> TRUE, from |-> Min(opens), to |-> Min(closes)]

\* leftmost match, greedy, "." matching line breaks too: from the first "["
\* to the last "]" after it
ReSearch(s) ==
    LET opens == Positions(s, "[") IN
    IF opens = {} THEN NoMatch
    ELSE LET closes == {j \in Positions(s, "]") : j > Min(opens)} IN
         IF closes = {} THEN NoMatch
         ELSE [found |-> TRUE, from |-> Min(opens), to |-> Max(closes)]

\* lines 66-72 and 164-170: narrow the content to the match, then parse
ExtractJson(content) ==
    LET m == ReSearch(content) IN
    JsonLoads(IF m.found THEN SubSeq(content, m.from, m.to) ELSE content)

(***************************************************************************)
(* Inference outcomes                                                      *)
(***************************************************************************)
Raised == [raised |-> TRUE, content |-> <<>>]
Completion(text) == [raised |-> FALSE, content |-> text]
NoOutcome == [raised |-> FALSE, content |-> <<"-">>]

ExtractAlphabet == {"[", "]", ",", "w", "nl", "7", "{A}", "{B}"}
AllTexts == UNION {[1..k -> ExtractAlphabet] : k \in 0..MaxLen}

(***************************************************************************)
(* LeadGenerator.research_leads                                            *)
(***************************************************************************)
FallbackRecord(name, size, year) ==
    [business_name |-> name, address |-> "Atlanta, GA 30305",
     phone |-> "(404)", website |-> "site", email |-> "mailbox",
     description |-> "dental practice", estimated_size |-> size,
     year_established |-> year]

FallbackTwo ==
    Arr(<<Obj(FallbackRecord("Premier Dental Care of Buckhead", "medium", "2015")),
          Obj(FallbackRecord("Buckhead Dental Partners", "medium", "2012"))>>)

FallbackLeads ==
    Arr(<<Obj(FallbackRecord("Premier Dental Care of Buckhead", "medium", "2015")),
          Obj(FallbackRecord("Buckhead Dental Partners", "medium", "2012")),
          Obj(FallbackRecord("Atlanta Dental Spa - Buckhead", "large", "2008"))>>)

ResearchLeads(o) ==
    LET r == ExtractJson(o.content) IN
    IF ~o.raised /\ r.ok
    THEN [leads |-> r.val, error |-> FALSE]
    ELSE [leads |-> FallbackLeads, error |-> TRUE]

(***************************************************************************)
(* LeadGenerator.analyze_and_score_leads                                   *)
(***************************************************************************)
Enrich(v) ==
    Obj(DictSet(DictSet(DictSet(DictSet(DictSet(v.fields,
        "score", 42),
        "classification", "High Value"),
        "reasoning", "upscale area"),
        "best_contact_method", "Email"),
        "personalized_note", "premium image"))

\* index of the first item the loop cannot assign into, 0 when there is none
FirstNonDict(items) ==
    LET bad == {i \in 1..Len(items) : ~IsObj(items[i])} IN
    IF bad = {} THEN 0 ELSE Min(bad)

\* the except branch, lines 173-184.  The records are enriched in place, so
\* self.leads (and whatever else refers to its records) changes with them;
\* the loop stops at the first item that is no dict and the TypeError leaves
\* the handler.
AnalysisFallback(ls, q0) ==
    CASE IsArr(ls) ->
            LET k == FirstNonDict(ls.items)
                done == [i \in 1..Len(ls.items) |->
                            IF k = 0 \/ i < k THEN Enrich(ls.items[i])
                            ELSE ls.items[i]]
            IN [qualified_leads |-> Arr(done), leads |-> Arr(done),
                error |-> TRUE, raised |-> k # 0]
      [] IsObj(ls) ->
            \* iterating a dict yields its keys: lead["score"] on a str
            [qualified_leads |-> ls, leads |-> ls, error |-> TRUE,
             raised |-> DOMAIN ls.fields # {}]
      [] OTHER ->
            \* no .copy() on a number, a string or None
            [qualified_leads |-> q0, leads |-> ls, error |-> TRUE,
             raised |-> TRUE]

AnalyzeAndScoreLeads(ls, q0, o) ==
    LET r == ExtractJson(o.content) IN
    IF ~o.raised /\ r.ok
    THEN [qualified_leads |-> r.val, leads |-> ls, error |-> FALSE,
          raised |-> FALSE]
    ELSE AnalysisFallback(ls, q0)

(***************************************************************************)
(* Extraction in isolation: one stage applied to every completion          *)
(***************************************************************************)
PriorLeads == {Arr(<<>>), FallbackLeads, Arr(<<Num(7)>>),
               Arr(<<Obj(ObjectOf("{A}")), Obj(ObjectOf("{B}"))>>)}

Quiet ==
    /\ action = "none"
    /\ clicked = 0
    /\ ss_leads = None
    /\ ss_qualified_leads = None
    /\ ss_download_link = None
    /\ ss_selected_lead = None
    /\ ss_email_template = None
    /\ errors = {}
    /\ propagated = "none"
    /\ trace = <<>>
    /\ assigned = {}
    /\ spreadsheet = None
    /\ view = [results |-> FALSE, link |-> FALSE, email |-> FALSE,
               buttons |-> 0, exception |-> FALSE]

InitExtract ==
    /\ pc = "Extract"
    /\ completion \in {Raised} \cup {Completion(t) : t \in AllTexts}
    /\ leads \in PriorLeads
    /\ qualified_leads = Arr(<<>>)
    /\ Quiet

SessionUnchanged ==
    UNCHANGED <<action, clicked, ss_leads, ss_qualified_leads,
                ss_download_link, ss_selected_lead, ss_email_template,
                trace, assigned, spreadsheet, view, completion>>

ExtractResearch ==
    /\ pc = "Extract"
    /\ LET r == ResearchLeads(completion) IN
        /\ leads' = r.leads
        /\ errors' = IF r.error THEN {"research"} ELSE {}
    /\ pc' = "Researched"
    /\ UNCHANGED <<qualified_leads, propagated>>
    /\ SessionUnchanged

ExtractAnalyze ==
    /\ pc = "Extract"
    /\ LET r == AnalyzeAndScoreLeads(leads, qualified_leads, completion) IN
        /\ leads' = r.leads
        /\ qualified_leads' = r.qualified_leads
        /\ errors' = IF r.error THEN {"analysis"} ELSE {}
        /\ propagated' = IF r.raised THEN "analysis" ELSE "none"
    /\ pc' = "Analyzed"
    /\ SessionUnchanged

NextExtract == ExtractResearch \/ ExtractAnalyze

SpecExtract == InitExtract /\ [][NextExtract]_vars

(***************************************************************************)
(* LeadGenerator.prepare_spreadsheet                                       *)
(***************************************************************************)
HasScore(v) == IsObj(v) /\ "score" \in DOMAIN v.fields

\* pd.DataFrame(self.qualified_leads) followed by sort_values(by='score')
\* succeeds on a non-empty list of dicts of which at least one has a score;
\* anything else raises inside the try (no 'score' column, scalar values,
\* not a list of records)
Tabular(q) ==
    /\ IsArr(q)
    /\ q.items # <<>>
    /\ \A i \in 1..Len(q.items) : IsObj(q.items[i])
    /\ \E i \in 1..Len(q.items) : HasScore(q.items[i])

RowOrders(n) ==
    {p \in [1..n -> 1..n] : \A i, j \in 1..n : i # j => p[i] # p[j]}

\* ascending=True: lowest score first, records without a score last
AscendingOrders(items) ==
    {p \in RowOrders(Len(items)) :
        \A i, j \in 1..Len(items) :
            i < j =>
               \/ ~HasScore(items[p[j]])
               \/ /\ HasScore(items[p[i]])
                  /\ items[p[i]].fields.score <= items[p[j]].fields.score}

\* sort_values(by='score', ascending=False) with the default kind
\* ('quicksort'): highest score first, records without a score (NaN) last;
\* the default kind promises no order among equal keys, so every such order
\* is a possible outcome
SortOrders(items) ==
    {p \in RowOrders(Len(items)) :
        \A i, j \in 1..Len(items) :
            i < j =>
               \/ ~HasScore(items[p[j]])
               \/ /\ HasScore(items[p[i]])
                  /\ items[p[i]].fields.score >= items[p[j]].fields.score}

IoOutcomes == {"ok", "write_fails", "read_fails"}

\* the <a href="data:...;base64,..."> element built from the file's bytes
DownloadLink == Str("Download Excel Report")

\* the rows of the frame in the order the sort left them
SortedRows(q, order) == [i \in 1..Len(q.items) |-> q.items[order[i]]]

\* an exception that is not caught leaves the method
PrepareSpreadsheetUncaught(q, order, io) ==
    IF ~Tabular(q) \/ io # "ok"
    THEN [href |-> None, error |-> FALSE, file |-> None, raised |-> TRUE]
    ELSE [href |-> DownloadLink, error |-> FALSE,
          file |-> Arr(SortedRows(q, order)), raised |-> FALSE]

\* lines 226-247; order is the row order the sort produced, io the outcome
\* of writing and reading back the file
PrepareSpreadsheet(q, order, io) ==
    IF ~Tabular(q) \/ io = "write_fails"
    THEN [href |-> None, error |-> TRUE, file |-> None, raised |-> FALSE]
    ELSE IF io = "read_fails"
    THEN [href |-> None, error |-> TRUE,
          file |-> Arr(SortedRows(q, order)), raised |-> FALSE]
    ELSE [href |-> DownloadLink, error |-> FALSE,
          file |-> Arr(SortedRows(q, order)), raised |-> FALSE]

ExportOrders(q) ==
    IF Tabular(q) THEN SortOrders(q.items) ELSE {<<>>}

(***************************************************************************)
(* LeadGenerator.generate_outreach_email                                   *)
(***************************************************************************)
EmailError == Str("Error generating personalized email template.")
EmailOutcomes == {Raised, Completion(<<"w">>)}

\* response.choices[0].message.content, the email text
EmailText(o) == Str("Subject: cleaning services")

\* the except branch returning None
GenerateOutreachEmailNone(lead, o) ==
    IF ~IsObj(lead)
    THEN [email |-> None, error |-> FALSE, raised |-> TRUE]
    ELSE IF o.raised
    THEN [email |-> None, error |-> TRUE, raised |-> FALSE]
    ELSE [email |-> EmailText(o), error |-> FALSE, raised |-> FALSE]

\* lines 186-220: the prompt is built outside the try (lead.get needs a
\* dict); a failed call returns the error text
GenerateOutreachEmail(lead, o) ==
    IF ~IsObj(lead)
    THEN [email |-> None, error |-> FALSE, raised |-> TRUE]
    ELSE IF o.raised
    THEN [email |-> EmailError, error |-> TRUE, raised |-> FALSE]
    ELSE [email |-> EmailText(o), error |-> FALSE, raised |-> FALSE]

(***************************************************************************)
(* The display part of the script, lines 368-440                           *)
(***************************************************************************)
Blank == [results |-> FALSE, link |-> FALSE, email |-> FALSE,
          buttons |-> 0, exception |-> FALSE]

ScoreOf(v) == IF "score" \in DOMAIN v.fields THEN v.fields.score ELSE 0

\* st.progress(float(score)/5) accepts 0.0 to 1.0 only
FirstBadScore(items) ==
    LET bad == {i \in 1..Len(items) : ScoreOf(items[i]) < 0 \/ ScoreOf(items[i]) > 50}
    IN IF bad = {} THEN 0 ELSE Min(bad)

RenderView(q, link, template, selected) ==
    IF ~Truthy(q) THEN Blank
    ELSE IF ~IsArr(q) \/ FirstNonDict(q.items) # 0
    THEN \* len() of a number, or l.get on an item that is no dict
         [Blank EXCEPT !.exception = TRUE]
    ELSE IF FirstBadScore(q.items) # 0
    THEN [results |-> FALSE, link |-> Truthy(link), email |-> FALSE,
          buttons |-> FirstBadScore(q.items) - 1, exception |-> TRUE]
    ELSE [results |-> TRUE, link |-> Truthy(link),
          email |-> Truthy(template) /\ Truthy(selected),
          buttons |-> Len(q.items), exception |-> FALSE]

(***************************************************************************)
(* The completions the pipeline is run on                                  *)
(***************************************************************************)
RECURSIVE Join(_)
Join(toks) ==
    IF toks = <<>> THEN <<>>
    ELSE IF Len(toks) = 1 THEN toks
    ELSE <<Head(toks), ",">> \o Join(Tail(toks))

\* the arrays of at most MaxLeads items, as the model writes them
ArrayTexts(itemTokens) ==
    {<<"[">> \o Join(toks) \o <<"]">> :
        toks \in UNION {[1..k -> itemTokens] : k \in 0..MaxLeads}}

Wrapped(t) == <<"w", "nl">> \o t \o <<"w">>

\* research completions: arrays of records bare and inside prose, an array
\* with an item that is no record, a bare object, a bare number, prose
ResearchTexts ==
    {<<"[", "]">>, <<"[", "{A}", "]">>, <<"[", "{B}", "]">>,
     <<"[", "{A}", ",", "7", "]">>, <<"[", "7", "]">>,
     Wrapped(<<"[", "{A}", "]">>), <<"[", "{A}", "]", "]">>,
     <<"{A}">>, <<"7">>, <<"w">>}

ResearchOutcomes == {Raised} \cup {Completion(t) : t \in ResearchTexts}

\* analysis completions: every array of up to MaxLeads scored records (two
\* of them with equal scores), bare and inside prose, and the special cases
AnalysisTexts ==
    ArrayTexts({"{A3}", "{B3}"})
        \cup {Wrapped(t) : t \in ArrayTexts({"{A3}", "{B3}"})}
        \cup {<<"[", "{A3}", ",", "{C5}", "]">>,
              <<"[", "{B}", ",", "{C5}", "]">>,
              <<"[", "{A3}", "]", "]">>, <<"{A}">>, <<"7">>, <<"w">>}

AnalysisOutcomes == {Raised} \cup {Completion(t) : t \in AnalysisTexts}

(***************************************************************************)
(* create_streamlit_app: one script run per user action                    *)
(***************************************************************************)
Init ==
    /\ pc = "Waiting"
    /\ leads = Arr(<<>>)
    /\ qualified_leads = Arr(<<>>)
    /\ completion = NoOutcome
    /\ Quiet

\* a run starts: a new LeadGenerator, nothing reported yet
StartRun(what, button) ==
    /\ action' = what
    /\ clicked' = button
    /\ leads' = Arr(<<>>)
    /\ qualified_leads' = Arr(<<>>)
    /\ errors' = {}
    /\ propagated' = "none"
    /\ trace' = <<>>
    /\ assigned' = {}
    /\ spreadsheet' = None
    /\ view' = Blank
    /\ UNCHANGED <<ss_leads, ss_qualified_leads, ss_download_link,
                   ss_selected_lead, ss_email_template, completion>>

\* the form is submitted
Submit ==
    /\ pc = "Waiting"
    /\ pc' = "Researching"
    /\ StartRun("submit", 0)

\* one of the email buttons the last render showed is clicked
ClickEmail ==
    /\ pc = "Waiting"
    /\ \E i \in 1..view.buttons :
          /\ pc' = "GeneratingEmail"
          /\ StartRun("click", i)

\* any other interaction reruns the script with submitted false
Rerun ==
    /\ pc = "Waiting"
    /\ pc' = "Displaying"
    /\ StartRun("rerun", 0)

\* line 360
Research ==
    /\ pc = "Researching"
    /\ \E o \in ResearchOutcomes :
          LET r == ResearchLeads(o) IN
          /\ leads' = r.leads
          /\ ss_leads' = r.leads
          /\ errors' = IF r.error THEN errors \cup {"research"} ELSE errors
    /\ trace' = Append(trace, "Researching")
    /\ assigned' = assigned \cup {"leads"}
    /\ pc' = "Analyzing"
    /\ UNCHANGED <<action, clicked, qualified_leads, ss_qualified_leads,
                   ss_download_link, ss_selected_lead, ss_email_template,
                   propagated, spreadsheet, view, completion>>

\* line 363; session_state.leads is the list self.leads, whose records the
\* fallback changes in place; an exception leaving the method ends the run
\* with the traceback on screen
Analyze ==
    /\ pc = "Analyzing"
    /\ \E o \in AnalysisOutcomes :
          LET r == AnalyzeAndScoreLeads(leads, qualified_leads, o) IN
          /\ leads' = r.leads
          /\ ss_leads' = r.leads
          /\ qualified_leads' = r.qualified_leads
          /\ errors' = IF r.error THEN errors \cup {"analysis"} ELSE errors
          /\ IF r.raised
             THEN /\ propagated' = "analysis"
                  /\ pc' = "Waiting"
                  /\ view' = [Blank EXCEPT !.exception = TRUE]
                  /\ UNCHANGED <<ss_qualified_leads, assigned>>
             ELSE /\ ss_qualified_leads' = r.qualified_leads
                  /\ assigned' = assigned \cup {"qualified_leads"}
                  /\ pc' = "Exporting"
                  /\ UNCHANGED <<propagated, view>>
    /\ trace' = Append(trace, "Analyzing")
    /\ UNCHANGED <<action, clicked, ss_download_link, ss_selected_lead,
                   ss_email_template, spreadsheet, completion>>

\* line 366
Export ==
    /\ pc = "Exporting"
    /\ \E order \in ExportOrders(qualified_leads), io \in IoOutcomes :
          LET r == PrepareSpreadsheet(qualified_leads, order, io) IN
          /\ spreadsheet' = r.file
          /\ errors' = IF r.error THEN errors \cup {"export"} ELSE errors
          /\ IF r.raised
             THEN /\ propagated' = "export"
                  /\ pc' = "Waiting"
                  /\ view' = [Blank EXCEPT !.exception = TRUE]
                  /\ UNCHANGED <<ss_download_link, assigned>>
             ELSE /\ ss_download_link' = r.href
                  /\ assigned' = assigned \cup {"download_link"}
                  /\ pc' = "Displaying"
                  /\ UNCHANGED <<propagated, view>>
    /\ trace' = Append(trace, "Exporting")
    /\ UNCHANGED <<action, clicked, leads, qualified_leads, ss_leads,
                   ss_qualified_leads, ss_selected_lead, ss_email_template,
                   completion>>

\* lines 425-428, reached while the cards are drawn
GenerateEmail ==
    /\ pc = "GeneratingEmail"
    /\ \E o \in EmailOutcomes :
          LET lead == ss_qualified_leads.items[clicked]
              r == GenerateOutreachEmail(lead, o)
          IN /\ ss_selected_lead' = lead
             /\ errors' = IF r.error THEN errors \cup {"email"} ELSE errors
             /\ IF r.raised
                THEN /\ propagated' = "email"
                     /\ pc' = "Waiting"
                     /\ view' = [Blank EXCEPT !.exception = TRUE]
                     /\ UNCHANGED ss_email_template
                ELSE /\ ss_email_template' = r.email
                     /\ pc' = "Displaying"
                     /\ UNCHANGED <<propagated, view>>
    /\ trace' = Append(trace, "GeneratingEmail")
    /\ UNCHANGED <<action, clicked, leads, qualified_leads, ss_leads,
                   ss_qualified_leads, ss_download_link, assigned,
                   spreadsheet, completion>>

\* lines 368-440: the rest of the script draws the page from session_state
Display ==
    /\ pc = "Displaying"
    /\ view' = RenderView(ss_qualified_leads, ss_download_link,
                          ss_email_template, ss_selected_lead)
    /\ propagated' = IF view'.exception THEN "display" ELSE propagated
    /\ trace' = Append(trace, "Displaying")
    /\ pc' = "Waiting"
    /\ UNCHANGED <<action, clicked, leads, qualified_leads, ss_leads,
                   ss_qualified_leads, ss_download_link, ss_selected_lead,
                   ss_email_template, errors, assigned, spreadsheet,
                   completion>>

Next ==
    \/ Submit
    \/ ClickEmail
    \/ Rerun
    \/ Research
    \/ Analyze
    \/ Export
    \/ GenerateEmail
    \/ Display

Spec == Init /\ [][Next]_vars

(***************************************************************************)
(* Claims about extraction and the research fallback (under SpecExtract)   *)
(***************************************************************************)
StageDone == pc \in {"Researched", "Analyzed"}
StageResult == IF pc = "Researched" THEN leads ELSE qualified_leads
FallbackTaken == errors # {}

\* the well-formed bracketed arrays a text contains, as (from, to) pairs
ArraySpans(s) ==
    {p \in (1..Len(s)) \X (1..Len(s)) :
        /\ p[1] < p[2]
        /\ s[p[1]] = "["
        /\ s[p[2]] = "]"
        /\ JsonLoads(SubSeq(s, p[1], p[2])).ok}

\* a "[" with a "]" somewhere after it
HasBracketedRegion(s) ==
    \E i, j \in 1..Len(s) : i < j /\ s[i] = "[" /\ s[j] = "]"

\* a span with no "[" before it and no "]" after it
Outermost(s, p) ==
    /\ \A i \in 1..(p[1] - 1) : s[i] # "["
    /\ \A j \in (p[2] + 1)..Len(s) : s[j] # "]"

\* C1 as stated: a text that contains a well-formed bracketed array yields
\* that array's parsed content whatever surrounds it, and a text with no
\* bracketed region always yields the fallback.
C1_AnyArrayExtracted ==
    (StageDone /\ ~completion.raised) =>
        LET s == completion.content IN
        /\ ArraySpans(s) # {} =>
              /\ ~FallbackTaken
              /\ \E p \in ArraySpans(s) :
                    StageResult = JsonLoads(SubSeq(s, p[1], p[2])).val
        /\ ~HasBracketedRegion(s) => FallbackTaken

\* C1 amended: the array is returned when it spans from the first "[" to the
\* last "]" of the text; any other bracketed region fails; a text with no
\* bracketed region is parsed whole and fails only when it is not JSON.
C1_OutermostArrayExtracted ==
    (StageDone /\ ~completion.raised) =>
        LET s == completion.content IN
        /\ \A p \in ArraySpans(s) :
              Outermost(s, p) =>
                 /\ ~FallbackTaken
                 /\ StageResult = JsonLoads(SubSeq(s, p[1], p[2])).val
        /\ (HasBracketedRegion(s) /\ \A p \in ArraySpans(s) : ~Outermost(s, p))
              => FallbackTaken
        /\ ~HasBracketedRegion(s) =>
              IF JsonLoads(s).ok
              THEN ~FallbackTaken /\ StageResult = JsonLoads(s).val
              ELSE FallbackTaken

\* an array found between prose and returned as parsed
C1_Witness ==
    /\ pc = "Researched"
    /\ completion.content = <<"w", "[", "{A}", "]">>
    /\ leads = Arr(<<Obj(ObjectOf("{A}"))>>)
    /\ errors = {}

OmitsRequiredFields(v) ==
    /\ IsArr(v)
    /\ \E i \in 1..Len(v.items) :
          IsObj(v.items[i]) /\ ~(ResearchFields \subseteq DOMAIN v.items[i].fields)

IsFallbackSet(v) ==
    /\ IsArr(v)
    /\ Len(v.items) = 3
    /\ \A i \in 1..3 :
          /\ IsObj(v.items[i])
          /\ DOMAIN v.items[i].fields = ResearchFields
          /\ \A f \in ResearchFields : v.items[i].fields[f] # ""
    /\ v.items[1].fields.business_name = "Premier Dental Care of Buckhead"
    /\ v.items[2].fields.business_name = "Buckhead Dental Partners"
    /\ v.items[3].fields.business_name = "Atlanta Dental Spa - Buckhead"

\* C2 as stated: research_leads stores the three-record fallback whenever the
\* call raises, no bracketed region is found, parsing fails or the records
\* omit required fields.
C2_FallbackOnEveryDefect ==
    pc = "Researched" =>
        LET s == completion.content IN
        (\/ completion.raised
         \/ ~HasBracketedRegion(s)
         \/ ~ExtractJson(s).ok
         \/ OmitsRequiredFields(ExtractJson(s).val))
            => IsFallbackSet(leads)

\* C2 amended: research_leads stores the three-record fallback exactly when
\* the call raises or the text handed to the parser is not valid JSON; a
\* missing bracketed region or missing fields alone do not trigger it.
C2_FallbackOnRaiseOrParseFailure ==
    pc = "Researched" =>
        LET s == completion.content
            whole == JsonLoads(s)
            spans == {p \in ArraySpans(s) : Outermost(s, p)}
            parses == IF HasBracketedRegion(s) THEN spans # {} ELSE whole.ok
        IN /\ FallbackTaken <=> (completion.raised \/ ~parses)
           /\ FallbackTaken => IsFallbackSet(leads)
           /\ (~FallbackTaken /\ ~HasBracketedRegion(s)) => leads = whole.val

\* unparsable text answered with the fallback set
C2_Witness ==
    /\ pc = "Researched"
    /\ ~completion.raised
    /\ completion.content = <<"w", "w">>
    /\ "research" \in errors
    /\ IsFallbackSet(leads)

(***************************************************************************)
(* Claims about the pipeline and the session (under Spec)                  *)
(***************************************************************************)
Ran(stage) == \E i \in 1..Len(trace) : trace[i] = stage
RunEnded == pc = "Waiting" /\ action # "none"

\* C3: whenever analyze_and_score_leads takes its fallback path, it returns
\* every research record, in order, each with classification "High Value"
\* and score 4.2, whatever the research stage left in self.leads.
C3_FallbackScoresEveryRecord ==
    "analysis" \in errors =>
        /\ propagated # "analysis"
        /\ IsArr(leads)
        /\ IsArr(qualified_leads)
        /\ Len(qualified_leads.items) = Len(leads.items)
        /\ \A i \in 1..Len(qualified_leads.items) :
              /\ qualified_leads.items[i] = leads.items[i]
              /\ IsObj(qualified_leads.items[i])
              /\ "score" \in DOMAIN qualified_leads.items[i].fields
              /\ qualified_leads.items[i].fields.score = 42
              /\ qualified_leads.items[i].fields.classification = "High Value"

\* C4: none of the four stage operations ever propagates an error to its
\* caller, for every inference outcome and every lead collection.
C4_NoStagePropagates ==
    propagated \notin {"research", "analysis", "export", "email"}

\* C5 as stated: a failed export and a failed email generation both return a
\* null result, so nothing is stored or rendered for the failed stage.
C5_FailedStageReturnsNull ==
    /\ "export" \in errors =>
          /\ ss_download_link = None
          /\ RunEnded => ~view.link
    /\ "email" \in errors =>
          /\ ss_email_template = None
          /\ RunEnded => ~view.email

\* C5 amended: a failed export returns None (no link stored or rendered); a
\* failed email generation returns the fixed error text, which is stored as
\* the email template and rendered as the email.
C5_ExportNullEmailErrorText ==
    /\ "export" \in errors =>
          /\ ss_download_link = None
          /\ RunEnded => ~view.link
    /\ "email" \in errors =>
          /\ propagated # "email"
          /\ ss_email_template = EmailError
          /\ ss_selected_lead = ss_qualified_leads.items[clicked]
          /\ (RunEnded /\ ~view.exception) => view.email

\* a failed email generation whose error text is on screen as the email
C5_Witness ==
    /\ RunEnded
    /\ action = "click"
    /\ "email" \in errors
    /\ ss_email_template = EmailError
    /\ view.email

\* C6: every submission runs Researching, Analyzing, Exporting once each, in
\* that order, and ends in Displaying (summary and cards on screen), never
\* in an error state or an empty view; GeneratingEmail is entered only from
\* Displaying and returns to it.
C6_SubmissionReachesDisplaying ==
    /\ (RunEnded /\ action = "submit") =>
          /\ trace = <<"Researching", "Analyzing", "Exporting", "Displaying">>
          /\ view.results
          /\ ~view.exception
    /\ pc = "GeneratingEmail" => action = "click"
    /\ (RunEnded /\ action = "click") =>
          /\ trace = <<"GeneratingEmail", "Displaying">>
          /\ view.results

Count(items, v) == Cardinality({i \in 1..Len(items) : items[i] = v})

IsPermutationOf(rows, items) ==
    /\ Len(rows) = Len(items)
    /\ \A i \in 1..Len(items) : Count(rows, items[i]) = Count(items, items[i])

HigherScoreFirst(rows) ==
    \A i, j \in 1..Len(rows) :
        i < j =>
           \/ ~HasScore(rows[j])
           \/ /\ HasScore(rows[i])
              /\ rows[i].fields.score >= rows[j].fields.score

\* the order a stable descending sort gives: equal keys keep their places
StableOrder(items) ==
    CHOOSE p \in SortOrders(items) :
        \A i, j \in 1..Len(items) :
            (i < j /\ ScoreOf(items[p[i]]) = ScoreOf(items[p[j]])
                   /\ HasScore(items[p[i]]) = HasScore(items[p[j]]))
                => p[i] < p[j]

\* C7 as stated: the exported rows are the input records sorted by
\* descending score, rows with equal scores in their original order.
C7_ExportSortedStable ==
    spreadsheet # None =>
        /\ IsPermutationOf(spreadsheet.items, qualified_leads.items)
        /\ HigherScoreFirst(spreadsheet.items)
        /\ spreadsheet.items =
              SortedRows(qualified_leads, StableOrder(qualified_leads.items))

\* C7 amended: the exported rows are a permutation of the input records in
\* which a row with a higher score always comes before one with a lower
\* score and rows without a score come last; the order of rows with equal
\* scores is not fixed.
C7_ExportSortedDescending ==
    spreadsheet # None =>
        /\ IsPermutationOf(spreadsheet.items, qualified_leads.items)
        /\ HigherScoreFirst(spreadsheet.items)

\* an export that had to move a record: the higher score was second
C7_Witness ==
    /\ spreadsheet # None
    /\ qualified_leads = Arr(<<Obj(ObjectOf("{A3}")), Obj(ObjectOf("{C5}"))>>)
    /\ spreadsheet = Arr(<<Obj(ObjectOf("{C5}")), Obj(ObjectOf("{A3}"))>>)

\* C8: exporting an empty collection either fails (error reported, null
\* result, no file written) or produces an empty table; it never raises to
\* the caller and never produces a non-empty table.
C8_EmptyExportFailsCleanly ==
    (Ran("Exporting") /\ qualified_leads = Arr(<<>>)) =>
        /\ propagated # "export"
        /\ \/ /\ "export" \in errors
              /\ ss_download_link = None
              /\ spreadsheet = None
           \/ /\ "export" \notin errors
              /\ spreadsheet = Arr(<<>>)

\* the export of an empty collection has failed and been reported
C8_Witness ==
    /\ Ran("Exporting")
    /\ qualified_leads = Arr(<<>>)
    /\ ss_qualified_leads = Arr(<<>>)
    /\ "export" \in errors
    /\ ss_download_link = None

Results == <<ss_leads, ss_qualified_leads, ss_download_link>>

\* C9: only a form submission changes session_state.leads, qualified_leads
\* and download_link, and a submission replaces all three together.
C9_ResultsReplacedOnlyTogether ==
    [][/\ Results' # Results =>
             (action = "submit" /\ pc \in {"Researching", "Analyzing", "Exporting"})
       /\ (pc' = "Waiting" /\ action' = "submit") =>
             assigned' = {"leads", "qualified_leads", "download_link"}]_vars

\* C10: whenever an email template is displayed, session_state.selected_lead
\* is a record of the current session_state.qualified_leads.
C10_EmailBelongsToResults ==
    view.email =>
        /\ IsArr(ss_qualified_leads)
        /\ \E i \in 1..Len(ss_qualified_leads.items) :
              ss_qualified_leads.items[i] = ss_selected_lead

====
